---- MODULE Spec2Model ----
(***************************************************************************)
(* Model of the paginated user table of src/src/components/DataTable.tsx.  *)
(*                                                                         *)
(* The component holds a `page` signal, a resource `users` created by      *)
(* createResource(page, fetchUsers), and a `snapshot` signal that an       *)
(* effect fills from users().  The resource is modelled by the signals it  *)
(* keeps (value, error, state) and by its bookkeeping (pr, the promise of  *)
(* the latest load, and resolved): a load makes its promise the current    *)
(* one, and a promise that settles when it is no longer the current one    *)
(* changes nothing.  Requests that were issued and have not settled yet    *)
(* are kept in `inflight`; the network never cancels one.                  *)
(*                                                                         *)
(* Every handler is an operator from a state record to a state record;     *)
(* the actions apply a handler to the current state.                       *)
(***************************************************************************)
EXTENDS Integers, Sequences, FiniteSets, TLC

\* ---------------------------------------------------------------- bounds
\* The listing endpoint reports a total of TotalStep * k records, k in
\* 0..MaxTotalSteps.
TotalStep == 5
MaxTotalSteps == 5
\* Number of requests one run of the component issues.
MaxRequests == 5
\* Number of unfinished "saved" notices of the settings page.
MaxSaves == 2
\* Number of times the Timer is mounted, and of ticks one Timer counts.
MaxMounts == 2
MaxTicks == 3

\* ------------------------------------------------------- program constants
PAGE_SIZE == 8

\* --------------------------------------------------------------- JS values
null == [tag |-> "null"]
undefined == [tag |-> "undefined"]

VARIABLES
  page,       \* the page signal
  value,      \* resource: last resolved value, or undefined
  error,      \* resource: error of the latest settled load, or undefined
  state,      \* resource: "unresolved" | "pending" | "ready" | "refreshing" | "errored"
  resolved,   \* resource: a load has settled
  pr,         \* resource: id of the promise of the latest load, 0 when none
  snapshot,   \* the snapshot signal: null or {rows, total}
  inflight,   \* requests issued and not settled yet
  nextId,     \* id the next request gets (ids count requests in issue order)
  thrown,     \* an effect has thrown out of the reactive system
  valueReq,   \* history: the request whose result `value` holds
  snapReq,    \* history: the request whose result `snapshot` holds
  hadRows,    \* history: a snapshot with at least one row has existed
  clicks,     \* history: number of page changes and of Retry clicks so far
  last        \* history: the step that led to this state

vars == <<page, value, error, state, resolved, pr, snapshot, inflight,
          nextId, thrown, valueReq, snapReq, hadRows, clicks, last>>

\* The settings page (src/stores/settings.tsx and the Settings page).
VARIABLES
  settings,   \* the store of SettingsProvider
  saved,      \* the saved signal of the Settings page
  saveTimers  \* number of setTimeout callbacks of handleSave not yet run

settingsVars == <<settings, saved, saveTimers>>

\* The variables of the table without the history of the last step, which
\* every page writes.
tableVars == <<page, value, error, state, resolved, pr, snapshot, inflight,
               nextId, thrown, valueReq, snapReq, hadRows, clicks>>

\* The workshop page: the Lifecycle and the Error Handling sections.
VARIABLES
  visible,     \* LifecycleSection: the Timer is rendered
  log,         \* LifecycleSection: the lifecycle log, a sequence of entries
  intervals,   \* the intervals of the window that are set and not cleared
  ticksOf,     \* the ticks signal of every Timer created so far, in order
  appended,    \* history: number of entries appended to the log so far
  appState,    \* ErrorHandlingSection: status of the state signal
  shouldThrow, \* ErrorHandlingSection: the shouldThrow signal
  errored      \* ErrorBoundary: the error caught, or undefined

workshopVars == <<visible, log, intervals, ticksOf, appended,
                  appState, shouldThrow, errored>>

allVars == <<vars, settingsVars, workshopVars>>

\* The component's state as one record.
St == [page |-> page, value |-> value, error |-> error, state |-> state,
       resolved |-> resolved, pr |-> pr, snapshot |-> snapshot,
       inflight |-> inflight, nextId |-> nextId, thrown |-> thrown,
       valueReq |-> valueReq, snapReq |-> snapReq]

Apply(T) ==
  /\ page' = T.page
  /\ value' = T.value
  /\ error' = T.error
  /\ state' = T.state
  /\ resolved' = T.resolved
  /\ pr' = T.pr
  /\ snapshot' = T.snapshot
  /\ inflight' = T.inflight
  /\ nextId' = T.nextId
  /\ thrown' = T.thrown
  /\ valueReq' = T.valueReq
  /\ snapReq' = T.snapReq
  /\ hadRows' = (hadRows \/ (T.snapshot # null /\ Len(T.snapshot.rows) > 0))
  /\ UNCHANGED <<settingsVars, workshopVars>>

\* ------------------------------------------------------ the remote endpoint
Totals == {TotalStep * k : k \in 0..MaxTotalSteps}
Statuses == {200, 299, 300, 404, 500}

\* The record the endpoint holds under identity i.
RoleOf(i) == IF i % 4 = 1 THEN "admin" ELSE IF i % 4 = 2 THEN "moderator" ELSE "user"
AgeOf(i) == 25 + (i % 10)
RemoteUser(i) ==
  [id |-> i, firstName |-> <<"first", i>>, lastName |-> <<"last", i>>,
   email |-> <<"email", i>>, age |-> AgeOf(i), role |-> RoleOf(i),
   company |-> [title |-> <<"title", i>>]]

Min(a, b) == IF a < b THEN a ELSE b
Max(a, b) == IF a > b THEN a ELSE b

\* Body of a 2xx answer to ?limit=&skip= when the listing holds t records.
ApiResponse(limit, skip, t) ==
  [users |-> [k \in 1..Max(0, Min(limit, t - skip)) |-> RemoteUser(skip + k)],
   total |-> t, skip |-> skip, limit |-> limit]

\* res.ok
resOk(resp) == resp.status >= 200 /\ resp.status <= 299

\* What the network does with one request: it fails, or it answers with a
\* status and a body that parses to the listing at that time or does not
\* parse; the body of an answer that is not ok lists nothing.
Responses ==
  {[net |-> "down"]}
  \cup {[net |-> "up", status |-> s, json |-> j, total |-> t] :
          s \in {x \in Statuses : resOk([status |-> x])},
          j \in {"ok", "bad"}, t \in Totals}
  \cup {[net |-> "up", status |-> s, json |-> j, total |-> 0] :
          s \in {x \in Statuses : ~resOk([status |-> x])},
          j \in {"ok", "bad"}}

\* ----------------------------------------------------------- mapping helpers
\* Variant: the labels of "admin" and "moderator" are exchanged.
deriveStatus_swapped(apiRole) ==
  CASE apiRole = "admin" -> "Pending"
    [] apiRole = "moderator" -> "Active"
    [] OTHER -> "Inactive"

deriveStatus(apiRole) ==
  CASE apiRole = "admin" -> "Active"
    [] apiRole = "moderator" -> "Pending"
    [] OTHER -> "Inactive"

\* Variant: the two factors are exchanged.
deriveRevenueAmount_swapped(id, age) == id * 210 + age * 1340

\* The amount before formatting.
deriveRevenueAmount(id, age) == id * 1340 + age * 210

\* Strings that are built from numbers are sequences of characters.
Digit(d) == <<"0", "1", "2", "3", "4", "5", "6", "7", "8", "9">>[d + 1]

\* The decimal digits of n >= 0, without grouping.
RECURSIVE Digits(_)
Digits(n) == IF n < 10 THEN <<Digit(n)>> ELSE Digits(n \div 10) \o <<Digit(n % 10)>>

\* The three digits of a group below the leading one.
Group3(n) == <<Digit(n \div 100), Digit((n \div 10) % 10), Digit(n % 10)>>

\* Variant: the digits are not grouped.
toLocaleString_ungrouped(n) ==
  IF n < 0 THEN <<"-">> \o Digits(0 - n) ELSE Digits(n)

\* amount.toLocaleString("en-US") of an integer: groups of three digits
\* separated by commas.
RECURSIVE toLocaleString(_)
toLocaleString(n) ==
  IF n < 0 THEN <<"-">> \o toLocaleString(0 - n)
  ELSE IF n < 1000 THEN Digits(n)
  ELSE toLocaleString(n \div 1000) \o <<",">> \o Group3(n % 1000)

deriveRevenue(id, age) == <<"$">> \o toLocaleString(deriveRevenueAmount(id, age))

mapUser(u) ==
  [id |-> u.id, name |-> <<u.firstName, " ", u.lastName>>, email |-> u.email,
   role |-> u.company.title, status |-> deriveStatus(u.role),
   revenue |-> deriveRevenue(u.id, u.age)]

\* ------------------------------------------------------------------ fetcher
\* Variant: the page index is sent as the offset.
Request_pageAsSkip(id, p, refetching) ==
  [id |-> id, page |-> p, limit |-> PAGE_SIZE, skip |-> p,
   refetching |-> refetching]

\* One call of the fetcher: the page it was called for, the limit and skip of
\* its URL, whether the resource called it for a refetch, and the position
\* of the call among all calls.
Request(id, p, refetching) ==
  [id |-> id, page |-> p, limit |-> PAGE_SIZE, skip |-> p * PAGE_SIZE,
   refetching |-> refetching]

NoRequest == Request(0, 0, FALSE)

\* Variant: the status of the response is not looked at.
fetchUsers_anyStatus(req, resp) ==
  IF resp.net = "down" THEN [ok |-> FALSE, err |-> [kind |-> "network"]]
  ELSE IF resp.json = "bad" THEN [ok |-> FALSE, err |-> [kind |-> "decode"]]
  ELSE LET data == ApiResponse(req.limit, req.skip, resp.total)
       IN [ok |-> TRUE,
           val |-> [rows |-> [k \in 1..Len(data.users) |-> mapUser(data.users[k])],
                    total |-> data.total]]

\* fetchUsers settled: [ok |-> TRUE, val |-> {rows, total}] or [ok |-> FALSE, err |-> e].
fetchUsers(req, resp) ==
  IF resp.net = "down" THEN [ok |-> FALSE, err |-> [kind |-> "network"]]
  ELSE IF ~resOk(resp)
       THEN [ok |-> FALSE, err |-> [kind |-> "API error", status |-> resp.status]]
  ELSE IF resp.json = "bad" THEN [ok |-> FALSE, err |-> [kind |-> "decode"]]
  ELSE LET data == ApiResponse(req.limit, req.skip, resp.total)
       IN [ok |-> TRUE,
           val |-> [rows |-> [k \in 1..Len(data.users) |-> mapUser(data.users[k])],
                    total |-> data.total]]

\* ------------------------------------------------------------- the resource
\* users(): the read accessor throws the stored error when no load is pending.
usersThrows(S) == S.error # undefined /\ S.pr = 0

\* Variant: the effect stores whatever the resource has, and null when the
\* resource has nothing to read.
snapshotEffect_clearing(S) ==
  IF usersThrows(S) THEN [S EXCEPT !.thrown = TRUE, !.snapshot = null]
  ELSE IF S.value # undefined
       THEN [S EXCEPT !.snapshot = S.value, !.snapReq = S.valueReq]
       ELSE [S EXCEPT !.snapshot = null]

\* Variant: the effect fills the snapshot once and never replaces it.
snapshotEffect_once(S) ==
  IF usersThrows(S) THEN [S EXCEPT !.thrown = TRUE]
  ELSE IF S.value # undefined /\ S.snapshot = null
       THEN [S EXCEPT !.snapshot = S.value, !.snapReq = S.valueReq]
       ELSE S

\* The effect that copies users() into the snapshot.  It runs when the
\* resource's value or error has changed.
snapshotEffect(S) ==
  IF usersThrows(S) THEN [S EXCEPT !.thrown = TRUE]
  ELSE IF S.value # undefined
       THEN [S EXCEPT !.snapshot = S.value, !.snapReq = S.valueReq]
       ELSE S

\* load(refetching): call the fetcher for the current page and make its
\* promise the current one.  The stored value and error stay as they are.
load(S, refetching) ==
  [S EXCEPT !.inflight = S.inflight \cup {Request(S.nextId, S.page, refetching)},
            !.nextId = S.nextId + 1,
            !.pr = S.nextId,
            !.state = IF S.resolved THEN "refreshing" ELSE "pending"]

\* Variant: a failed load stores no error.
completeLoad_noError(S, r, res) ==
  snapshotEffect(
    [S EXCEPT !.value = IF res.ok THEN res.val ELSE S.value,
              !.valueReq = IF res.ok THEN r ELSE S.valueReq,
              !.state = IF ~res.ok THEN "errored"
                        ELSE IF S.resolved THEN "ready" ELSE "unresolved",
              !.error = undefined])

\* Variant: a successful load leaves the stored error in place.
completeLoad_keepsError(S, r, res) ==
  snapshotEffect(
    [S EXCEPT !.value = IF res.ok THEN res.val ELSE S.value,
              !.valueReq = IF res.ok THEN r ELSE S.valueReq,
              !.state = IF ~res.ok THEN "errored"
                        ELSE IF S.resolved THEN "ready" ELSE "unresolved",
              !.error = IF res.ok THEN S.error ELSE res.err])

\* completeLoad(v, err), then the effects it triggers.
completeLoad(S, r, res) ==
  snapshotEffect(
    [S EXCEPT !.value = IF res.ok THEN res.val ELSE S.value,
              !.valueReq = IF res.ok THEN r ELSE S.valueReq,
              !.state = IF ~res.ok THEN "errored"
                        ELSE IF S.resolved THEN "ready" ELSE "unresolved",
              !.error = IF res.ok THEN undefined ELSE res.err])

\* Variant: every settled promise is applied, in completion order.
loadEnd_unguarded(S, r, res) ==
  LET T == [S EXCEPT !.inflight = S.inflight \ {r}]
  IN completeLoad([T EXCEPT !.pr = IF S.pr = r.id THEN 0 ELSE S.pr,
                            !.resolved = TRUE], r, res)

\* Variant: a failed load is retried at once.
loadEnd_autoRetry(S, r, res) ==
  LET T == [S EXCEPT !.inflight = S.inflight \ {r}]
  IN IF S.pr = r.id
     THEN LET U == completeLoad([T EXCEPT !.pr = 0, !.resolved = TRUE], r, res)
          IN IF res.ok THEN U ELSE load(U, TRUE)
     ELSE T

\* Variant: a failed load puts the page back to the page of the snapshot.
loadEnd_rollback(S, r, res) ==
  LET T == [S EXCEPT !.inflight = S.inflight \ {r}]
  IN IF S.pr = r.id
     THEN LET U == completeLoad([T EXCEPT !.pr = 0, !.resolved = TRUE], r, res)
          IN IF res.ok \/ U.snapshot = null THEN U
             ELSE [U EXCEPT !.page = U.snapReq.page]
     ELSE T

\* loadEnd(p, v, error, key): the promise of request r has settled with res.
\* Only the promise of the latest load is applied.
loadEnd(S, r, res) ==
  LET T == [S EXCEPT !.inflight = S.inflight \ {r}]
  IN IF S.pr = r.id
     THEN completeLoad([T EXCEPT !.pr = 0, !.resolved = TRUE], r, res)
     ELSE T

\* Variant: every write notifies, also a write of the value held.
setPage_always(S, n) == load([S EXCEPT !.page = n], FALSE)

\* Variant: a page change empties the snapshot until the new page arrives.
setPage_resetting(S, n) ==
  IF n = S.page THEN S
  ELSE load([S EXCEPT !.page = n, !.snapshot = null], FALSE)

\* setPage(n): a signal write; writing the value the signal holds notifies
\* nobody, any other value re-runs the resource's source computation.
setPage(S, n) ==
  IF n = S.page THEN S ELSE load([S EXCEPT !.page = n], FALSE)

\* refetch()
refetch(S) == load(S, TRUE)

\* ------------------------------------------------------------ derived state
displayRowsOf(S) == IF S.snapshot = null THEN <<>> ELSE S.snapshot.rows
totalOf(S) == IF S.snapshot = null THEN 0 ELSE S.snapshot.total
\* Variant: the quotient is rounded down.
totalPagesOf_floor(S) == totalOf(S) \div PAGE_SIZE

totalPagesOf(S) == (totalOf(S) + PAGE_SIZE - 1) \div PAGE_SIZE
hasLoadedOf(S) == S.snapshot # null
\* Variant: only the state of the resource counts.
isFetchingOf_stateOnly(S) == S.state = "refreshing" \/ S.state = "pending"

\* Variant: only the first load counts as fetching.
isFetchingOf_pendingOnly(S) == ~hasLoadedOf(S) \/ S.state = "pending"

isFetchingOf(S) ==
  ~hasLoadedOf(S) \/ S.state = "refreshing" \/ S.state = "pending"

displayRows == displayRowsOf(St)
total == totalOf(St)
totalPages == totalPagesOf(St)
hasLoaded == hasLoadedOf(St)
isFetching == isFetchingOf(St)

\* --------------------------------------------------------------- the render
\* Variant: the error block is rendered for every error.
ErrorBlockShown_anyError == error # undefined
ErrorBlockShown == error # undefined /\ ~hasLoaded
SkeletonShown == ~hasLoaded /\ error = undefined
TableShown == hasLoaded
PaginationShown == hasLoaded /\ totalPages > 1
PrevDisabled == page = 0 \/ isFetching
\* Variant: Next checks the page bound only.
NextDisabled_boundOnly == page >= totalPages - 1

NextDisabled == page >= totalPages - 1 \/ isFetching
\* Variant: the length of the padding is not clamped at 0.
PaddingRowsFor_unclamped(n) == PAGE_SIZE - n

\* Number of placeholder rows rendered under n data rows.
PaddingRowsFor(n) == Max(0, PAGE_SIZE - n)
PaddingRows == PaddingRowsFor(Len(displayRows))

\* ------------------------------------------------------- the settings store
defaultSettings ==
  [appearance |-> [darkMode |-> FALSE, compactView |-> FALSE],
   notifications |-> [email |-> TRUE, push |-> FALSE],
   profile |-> [name |-> "Guille", role |-> "Admin"]]

\* The actions of createSettingsActions, as functions of the store.
toggleDarkMode(s) == [s EXCEPT !.appearance.darkMode = ~@]
toggleCompactView(s) == [s EXCEPT !.appearance.compactView = ~@]
toggleEmailNotifications(s) == [s EXCEPT !.notifications.email = ~@]
togglePushNotifications(s) == [s EXCEPT !.notifications.push = ~@]
setProfileName(s, name) == [s EXCEPT !.profile.name = name]

\* Variant: the store is replaced by a copy of the defaults.
resetToDefaults_all(s) == defaultSettings

\* resetToDefaults: the draft's four switches are assigned.
resetToDefaults(s) ==
  [s EXCEPT !.appearance.darkMode = FALSE,
            !.appearance.compactView = FALSE,
            !.notifications.email = TRUE,
            !.notifications.push = FALSE]

\* ------------------------------------------------------ the lifecycle demo
\* An entry of the lifecycle log.  The time of day that starts every
\* message is left out; n is the number a Tick message carries.
LogEntry(text, n) == [text |-> text, n |-> n]

\* Variant: the log keeps every entry.
append_unbounded(prev, message) == <<message>> \o prev

\* append(message): the new entry first, at most 8 entries kept.
append(prev, message) == SubSeq(<<message>> \o prev, 1, Min(8, Len(prev) + 1))

\* window.setInterval and window.clearInterval on the set of intervals.
setInterval(ivs, id) == ivs \cup {id}

\* Variant: the cleanup does not clear the interval.
clearInterval_leaking(ivs, id) == ivs

clearInterval(ivs, id) == ivs \ {id}

\* The Timer that is mounted is the one created last; its interval has the
\* number of the Timer.
MountedTimer == Len(ticksOf)

\* ------------------------------------------------- the error handling demo
AppStatuses == {"idle", "loading", "error", "success"}

\* The boundary's part of the section's state.
Eb == [shouldThrow |-> shouldThrow, errored |-> errored]

\* The body of Thrower: it throws when props.shouldThrow holds at the time
\* the component is created, and renders the "Throw Error" button otherwise.
Thrower(st) == IF st THEN "Simulated render crash" ELSE "button"

\* The boundary evaluates its children: the Thrower is created with the
\* value shouldThrow has then, and what it throws is caught.
boundaryChildren(E) ==
  IF Thrower(E.shouldThrow) = "button" THEN E
  ELSE [E EXCEPT !.errored = Thrower(E.shouldThrow)]

\* setShouldThrow(v): the body of Thrower is the only reader of the signal
\* and a component body runs once, outside every tracking scope, so the
\* write re-runs nothing.
setShouldThrow(E, v) == [E EXCEPT !.shouldThrow = v]

\* reset(): the caught error is dropped and the children are evaluated anew.
reset(E) == boundaryChildren([E EXCEPT !.errored = undefined])

\* The onClick of the fallback's Reset button.
resetClick(E) == setShouldThrow(reset(E), FALSE)

FallbackShown == errored # undefined
ThrowerShown == errored = undefined

\* ------------------------------------------------------------------ actions
\* A step: the handler that ran, the request it issued or settled, and for
\* a settled request whether it succeeded, with what result, and whether it
\* was still the promise of the latest load.
Event(op, req, ok, applied, val) ==
  [op |-> op, req |-> req, ok |-> ok, applied |-> applied, val |-> val]

\* State after construction: the resource has issued the load for page 0.
Init ==
  /\ page = 0
  /\ value = undefined
  /\ error = undefined
  /\ state = "pending"
  /\ resolved = FALSE
  /\ pr = 1
  /\ snapshot = null
  /\ inflight = {Request(1, 0, FALSE)}
  /\ nextId = 2
  /\ thrown = FALSE
  /\ valueReq = NoRequest
  /\ snapReq = NoRequest
  /\ hadRows = FALSE
  /\ clicks = [page |-> 0, retry |-> 0]
  /\ last = Event("mount", Request(1, 0, FALSE), FALSE, FALSE, undefined)
  /\ settings = defaultSettings
  /\ saved = FALSE
  /\ saveTimers = 0
  /\ visible = FALSE
  /\ log = <<>>
  /\ intervals = {}
  /\ ticksOf = <<>>
  /\ appended = 0
  /\ appState = "idle"
  /\ shouldThrow = FALSE
  /\ errored = boundaryChildren([shouldThrow |-> FALSE, errored |-> undefined]).errored

\* Click on "Prev".
ClickPrev ==
  /\ PaginationShown
  /\ ~PrevDisabled
  /\ nextId <= MaxRequests
  /\ Apply(setPage(St, page - 1))
  /\ clicks' = [clicks EXCEPT !.page = @ + 1]
  /\ last' = Event("prev", Request(nextId, page - 1, FALSE), FALSE, FALSE, undefined)

\* Click on "Next".
ClickNext ==
  /\ PaginationShown
  /\ ~NextDisabled
  /\ nextId <= MaxRequests
  /\ Apply(setPage(St, page + 1))
  /\ clicks' = [clicks EXCEPT !.page = @ + 1]
  /\ last' = Event("next", Request(nextId, page + 1, FALSE), FALSE, FALSE, undefined)

\* Click on "Retry".
ClickRetry ==
  /\ ErrorBlockShown
  /\ nextId <= MaxRequests
  /\ Apply(refetch(St))
  /\ clicks' = [clicks EXCEPT !.retry = @ + 1]
  /\ last' = Event("retry", Request(nextId, page, TRUE), FALSE, FALSE, undefined)

\* The promise of an in-flight request settles.
Settle ==
  \E r \in inflight, resp \in Responses :
    LET res == fetchUsers(r, resp)
    IN /\ Apply(loadEnd(St, r, res))
       /\ UNCHANGED clicks
       /\ last' = Event("settle", r, res.ok, pr = r.id,
                         IF res.ok THEN res.val ELSE undefined)

Next == ClickPrev \/ ClickNext \/ ClickRetry \/ Settle

Spec == Init /\ [][Next]_vars

\* The component over a network that settles every request it was sent.
LiveSpec == Spec /\ WF_vars(Settle)

\* ------------------------------------------------------- the settings page
\* What the user types into the display name input.
Names == {"Guille", "Guillermo", ""}

\* A step of the settings page.
SettingsEvent(op) == [op |-> op]

\* A press on one of the four toggles.
PressDarkMode ==
  /\ settings' = toggleDarkMode(settings)
  /\ last' = SettingsEvent("toggleDarkMode")
  /\ UNCHANGED <<saved, saveTimers, tableVars, workshopVars>>

PressCompactView ==
  /\ settings' = toggleCompactView(settings)
  /\ last' = SettingsEvent("toggleCompactView")
  /\ UNCHANGED <<saved, saveTimers, tableVars, workshopVars>>

PressEmailNotifications ==
  /\ settings' = toggleEmailNotifications(settings)
  /\ last' = SettingsEvent("toggleEmailNotifications")
  /\ UNCHANGED <<saved, saveTimers, tableVars, workshopVars>>

PressPushNotifications ==
  /\ settings' = togglePushNotifications(settings)
  /\ last' = SettingsEvent("togglePushNotifications")
  /\ UNCHANGED <<saved, saveTimers, tableVars, workshopVars>>

\* Input into the display name field.
InputName ==
  \E name \in Names :
    /\ settings' = setProfileName(settings, name)
    /\ last' = SettingsEvent("setProfileName")
    /\ UNCHANGED <<saved, saveTimers, tableVars, workshopVars>>

\* Click on "Reset to Defaults".
ClickResetToDefaults ==
  /\ settings' = resetToDefaults(settings)
  /\ last' = SettingsEvent("resetToDefaults")
  /\ UNCHANGED <<saved, saveTimers, tableVars, workshopVars>>

\* Click on "Save Changes": handleSave.
ClickSave ==
  /\ saveTimers < MaxSaves
  /\ saved' = TRUE
  /\ saveTimers' = saveTimers + 1
  /\ last' = SettingsEvent("handleSave")
  /\ UNCHANGED <<settings, tableVars, workshopVars>>

\* A timeout set by handleSave runs.
SavedTimeout ==
  /\ saveTimers > 0
  /\ saved' = FALSE
  /\ saveTimers' = saveTimers - 1
  /\ last' = SettingsEvent("timeout")
  /\ UNCHANGED <<settings, tableVars, workshopVars>>

SettingsNext ==
  \/ PressDarkMode \/ PressCompactView
  \/ PressEmailNotifications \/ PressPushNotifications
  \/ InputName \/ ClickResetToDefaults \/ ClickSave \/ SavedTimeout

SettingsSpec == Init /\ [][SettingsNext]_allVars

\* ------------------------------------------------------- the workshop page
\* A step of the workshop page.
WorkshopEvent(op) == [op |-> op]

\* Click on "Mount Timer" / "Unmount Timer": setVisible(v => !v).  Mounting
\* creates a Timer whose two onMount callbacks log "Timer mounted" and set
\* the interval; unmounting runs the cleanup registered with the interval,
\* which clears it and logs "Timer cleaned up".
ClickToggleTimer ==
  /\ visible \/ Len(ticksOf) < MaxMounts
  /\ visible' = ~visible
  /\ IF ~visible
     THEN /\ ticksOf' = Append(ticksOf, 0)
          /\ log' = append(log, LogEntry("Timer mounted", 0))
          /\ intervals' = setInterval(intervals, Len(ticksOf) + 1)
          /\ last' = WorkshopEvent("mount")
     ELSE /\ ticksOf' = ticksOf
          /\ intervals' = clearInterval(intervals, MountedTimer)
          /\ log' = append(log, LogEntry("Timer cleaned up", 0))
          /\ last' = WorkshopEvent("unmount")
  /\ appended' = appended + 1
  /\ UNCHANGED <<appState, shouldThrow, errored, tableVars, settingsVars>>

\* An interval fires: the callback of the Timer that set it counts a tick
\* and logs it.
IntervalFires ==
  \E id \in intervals :
    /\ ticksOf[id] < MaxTicks
    /\ ticksOf' = [ticksOf EXCEPT ![id] = @ + 1]
    /\ log' = append(log, LogEntry("Tick", ticksOf[id] + 1))
    /\ appended' = appended + 1
    /\ last' = WorkshopEvent("tick")
    /\ UNCHANGED <<visible, intervals, appState, shouldThrow, errored,
                   tableVars, settingsVars>>

\* Click on one of the buttons Idle, Loading, Error, Success.
ClickStatus ==
  \E s \in AppStatuses :
    /\ appState' = s
    /\ last' = WorkshopEvent("status")
    /\ UNCHANGED <<visible, log, intervals, ticksOf, appended, shouldThrow,
                   errored, tableVars, settingsVars>>

\* Click on "Throw Error", the button the Thrower renders: onThrow.
ClickThrow ==
  /\ ThrowerShown
  /\ shouldThrow' = setShouldThrow(Eb, TRUE).shouldThrow
  /\ errored' = setShouldThrow(Eb, TRUE).errored
  /\ last' = WorkshopEvent("throw")
  /\ UNCHANGED <<visible, log, intervals, ticksOf, appended, appState,
                 tableVars, settingsVars>>

\* Click on "Reset", the button the fallback renders.
ClickReset ==
  /\ FallbackShown
  /\ shouldThrow' = resetClick(Eb).shouldThrow
  /\ errored' = resetClick(Eb).errored
  /\ last' = WorkshopEvent("reset")
  /\ UNCHANGED <<visible, log, intervals, ticksOf, appended, appState,
                 tableVars, settingsVars>>

\* The fallback, and with it Reset, is never rendered (C29): the steps of
\* the page are the other four.
WorkshopNext == ClickToggleTimer \/ IntervalFires \/ ClickStatus \/ ClickThrow

WorkshopSpec == Init /\ [][WorkshopNext]_allVars

\* ------------------------------------------------------------------- typing
TypeOK ==
  /\ page \in Nat
  /\ state \in {"unresolved", "pending", "ready", "refreshing", "errored"}
  /\ resolved \in BOOLEAN
  /\ pr \in 0..MaxRequests
  /\ nextId \in 1..(MaxRequests + 1)
  /\ \A r \in inflight : r.id < nextId

\* ------------------------------------------------------------------- claims
Settled == last.op = "settle"
SettledOk == Settled /\ last.ok
SettledFailed == Settled /\ ~last.ok
Superseded == Settled /\ ~last.applied

\* C1: the snapshot changes only in a step that settles a successful fetch;
\* issuing a fetch and settling a failed fetch leave it as it was, and once
\* set it is never null again.
C1_SnapshotOnlyBySuccess ==
  [][/\ (snapshot' # snapshot => SettledOk')
     /\ (snapshot # null => snapshot' # null)]_vars

\* A failed fetch has settled while a snapshot existed.
C1_Witness ==
  /\ SettledFailed /\ last.applied
  /\ snapshot # null /\ snapshot = value

\* C2: a response that settles after a later load was issued is dropped; the
\* snapshot keeps the result of the later request, so the requests whose
\* results the snapshot holds follow the order of issue.
C2_StaleResponseDropped ==
  [][/\ (Superseded' => snapshot' = snapshot /\ snapReq' = snapReq)
     /\ snapReq'.id >= snapReq.id]_vars

\* Fetch A for page 0 settles successfully after fetch B for page 1, issued
\* later, has settled; the snapshot holds B's result.
C2_Witness ==
  /\ SettledOk /\ Superseded
  /\ last.req.page = 0
  /\ snapReq.page = 1 /\ snapReq.id > last.req.id
  /\ snapshot # last.val

\* C3 as stated: once a snapshot with at least one row has existed, rows are
\* displayed in every state in which a load is pending or the latest load
\* has failed.
C3_Original ==
  hadRows /\ (pr # 0 \/ state = "errored") => Len(displayRows) > 0

\* C3 amended: displayRows() goes from non-empty to empty only in a step that
\* applies a successful fetch whose result has no rows, never in a step that
\* issues a fetch or settles a failed or superseded one; while a load is
\* pending or has failed, rows are displayed whenever the latest applied
\* result has rows.
C3_RowsKeptThroughFetch ==
  /\ [][Len(displayRows) > 0 /\ Len(displayRows') = 0
          => SettledOk' /\ last'.applied /\ Len(last'.val.rows) = 0]_vars
  /\ []((pr # 0 \/ state = "errored") /\ value # undefined /\ Len(value.rows) > 0
          => Len(displayRows) > 0)

\* Rows are displayed while a refresh is pending after a failed refresh.
C3_Witness ==
  /\ hadRows /\ Len(displayRows) > 0
  /\ pr # 0 /\ error # undefined

\* C4 as stated: every successful fetch that settles makes displayRows() its
\* rows, and no other step changes displayRows().
C4_Original ==
  [][/\ (SettledOk' => displayRows' = last'.val.rows)
     /\ (~SettledOk' => displayRows' = displayRows)]_vars

\* C4 amended: a successful fetch that settles while it is still the latest
\* load makes displayRows() its rows, and no other step (page change, retry,
\* failed fetch, superseded fetch) changes displayRows().
C4_RowsOfLastAppliedSuccess ==
  [][/\ (SettledOk' /\ last'.applied => displayRows' = last'.val.rows)
     /\ (~(SettledOk' /\ last'.applied) => displayRows' = displayRows)]_vars

\* The rows of an earlier page are still displayed after the page has
\* changed and the fetch for the new page has failed.
C4_Witness ==
  /\ SettledFailed /\ last.applied
  /\ snapshot # null /\ snapReq.page # page
  /\ Len(displayRows) > 0

\* C5 as stated, for the second click of a double click on Next: while the
\* fetch issued by a click on Next is pending and a further page exists,
\* Next accepts another click.
C5_Original ==
  (last.op = "next" /\ pr = last.req.id /\ page < totalPages - 1
   /\ nextId <= MaxRequests) => ENABLED ClickNext

\* C5 amended: Prev and Next are disabled while a load is pending, so a page
\* change is issued only when no load is pending and at most one request
\* issued by the mount or a page change is in flight; two requests for
\* different pages are in flight together only when the older one is a
\* Retry request that a later Retry superseded.
C5_PageChangesNeverOverlap ==
  /\ [][page' # page => pr = 0]_vars
  /\ [](\A r1, r2 \in inflight :
          /\ (~r1.refetching /\ ~r2.refetching => r1 = r2)
          /\ (r1.id < r2.id /\ r1.page # r2.page
                => r1.refetching /\ r1.id # pr))

\* Two requests issued for different pages are in flight.
C5_Witness ==
  \E r1, r2 \in inflight : r1.page # r2.page /\ r2.id = pr /\ last.op = "next"

\* Page indices a click can reach within the bounds.
PageRange == 0..((TotalStep * MaxTotalSteps + PAGE_SIZE - 1) \div PAGE_SIZE)

\* C6: setPage(n) with n different from the current page issues exactly one
\* fetch, for page n, which becomes the latest load; setPage(n) with n the
\* current page issues nothing and changes nothing.
C6_SetPage ==
  /\ [](\A n \in PageRange :
          LET T == setPage(St, n)
          IN IF n = page THEN T = St
             ELSE /\ T.page = n
                  /\ Cardinality(T.inflight \ inflight) = 1
                  /\ inflight \subseteq T.inflight
                  /\ \A r \in T.inflight \ inflight :
                        r.page = n /\ r.skip = n * PAGE_SIZE /\ T.pr = r.id)
  /\ [][page' # page =>
          /\ Cardinality(inflight' \ inflight) = 1
          /\ inflight \subseteq inflight'
          /\ \A r \in inflight' \ inflight : r.page = page' /\ pr' = r.id]_vars

\* A click on Next has issued the fetch for page 1.
C6_Witness ==
  /\ last.op = "next" /\ page = 1
  /\ \E r \in inflight : r.id = pr /\ r.page = 1
  /\ Cardinality(inflight) = 1

\* C7: no click on Prev or Next moves page below 0 or to totalPages() or
\* beyond.
C7_PageInBounds ==
  [][page' # page => page' >= 0 /\ page' < totalPages']_vars

\* C8 as stated: where pagination is rendered, Prev is disabled exactly when
\* page is 0 and Next exactly when page is the last page.
C8_Original ==
  PaginationShown =>
    /\ (PrevDisabled <=> page = 0)
    /\ (NextDisabled <=> page = totalPages - 1)

\* C8 amended: where pagination is rendered, Prev is disabled exactly when
\* page is 0 or a load is pending, and Next exactly when page is the last
\* page or beyond it or a load is pending.
C8_DisabledControls ==
  PaginationShown =>
    /\ (PrevDisabled <=> page = 0 \/ pr # 0)
    /\ (NextDisabled <=> page >= totalPages - 1 \/ pr # 0)

\* On a middle page both controls are disabled while a refresh is pending.
C8_Witness ==
  /\ PaginationShown /\ pr # 0
  /\ page > 0 /\ page < totalPages - 1
  /\ PrevDisabled /\ NextDisabled

\* C9: when a fetch fails while no snapshot exists, no rows are displayed,
\* the error is set, and the error block is rendered, not the skeleton and
\* not the table.
C9_FirstLoadFailure ==
  SettledFailed /\ last.applied /\ snapshot = null =>
    /\ displayRows = <<>>
    /\ error # undefined
    /\ ErrorBlockShown /\ ~SkeletonShown /\ ~TableShown
    /\ (nextId <= MaxRequests => ENABLED ClickRetry)

\* The first fetch has failed.
C9_Witness ==
  /\ SettledFailed /\ last.applied /\ last.req.id = 1
  /\ snapshot = null /\ inflight = {}

\* C10 as stated: a Retry issues one fetch for the current page and leaves
\* page and snapshot alone, and when a fetch issued by Retry succeeds the
\* snapshot is its result and the table is rendered, not the error block.
C10_Original ==
  /\ [][last'.op = "retry" =>
          /\ page' = page /\ snapshot' = snapshot
          /\ Cardinality(inflight' \ inflight) = 1
          /\ inflight \subseteq inflight'
          /\ \A r \in inflight' \ inflight : r.page = page]_vars
  /\ [](SettledOk /\ last.req.refetching =>
          snapshot = last.val /\ TableShown /\ ~ErrorBlockShown)

\* C10 amended: as stated, for a fetch issued by Retry that succeeds while
\* it is still the latest load; the response to a Retry that a later Retry
\* superseded is dropped.
C10_Retry ==
  /\ [][last'.op = "retry" =>
          /\ page' = page /\ snapshot' = snapshot
          /\ Cardinality(inflight' \ inflight) = 1
          /\ inflight \subseteq inflight'
          /\ \A r \in inflight' \ inflight : r.page = page /\ pr' = r.id]_vars
  /\ [](SettledOk /\ last.req.refetching /\ last.applied =>
          snapshot = last.val /\ TableShown /\ ~ErrorBlockShown)

\* The fetch issued by a Retry has succeeded and the table is rendered.
C10_Witness ==
  /\ SettledOk /\ last.req.refetching /\ last.applied
  /\ TableShown /\ snapshot = last.val

\* C11: when a fetch fails while a snapshot exists, the rows of the snapshot
\* stay displayed, the error is set, and an error indication is rendered
\* with the rows.  The error block is the only part of the render that reads
\* users.error.
C11_RefreshFailureSurfaced ==
  SettledFailed /\ last.applied /\ snapshot # null =>
    /\ displayRows = snapshot.rows
    /\ error # undefined
    /\ TableShown
    /\ ErrorBlockShown

\* C12: no failed fetch makes a computation of the component throw; the
\* failure is held in the error state only.
C12_NothingThrown ==
  ~thrown

\* Number of requests issued so far.
Issued == nextId - 1

\* C13: a request is issued only by the mount, by a page change or by a
\* click on Retry: a step that settles a fetch, failed or not, issues none,
\* every other step issues exactly one, and the number of requests issued
\* is 1 plus the page changes plus the Retry clicks.
C13_ManualRetryOnly ==
  /\ [](Issued = 1 + clicks.page + clicks.retry)
  /\ [][/\ (Settled' => nextId' = nextId /\ inflight' \subseteq inflight)
        /\ (nextId' # nextId =>
              /\ nextId' = nextId + 1
              /\ last'.op \in {"prev", "next", "retry"}
              /\ Cardinality(inflight' \ inflight) = 1)]_vars

\* A fetch has failed after a page change and a Retry, and nothing is in
\* flight.
C13_Witness ==
  /\ SettledFailed /\ last.applied /\ inflight = {}
  /\ clicks.page >= 1 /\ clicks.retry >= 1
  /\ Issued = 1 + clicks.page + clicks.retry

\* C14: whatever request is in flight, a response whose status is outside
\* 200..299 makes fetchUsers fail without a result, with an error that
\* carries that status; settling it leaves value and snapshot as they were
\* and, for the latest load, stores that error.
C14_NonOkStatusFails ==
  \A r \in inflight, resp \in Responses :
    (resp.net = "up" /\ (resp.status < 200 \/ resp.status > 299)) =>
      LET res == fetchUsers(r, resp)
          T == loadEnd(St, r, res)
      IN /\ ~res.ok
         /\ res.err = [kind |-> "API error", status |-> resp.status]
         /\ T.snapshot = snapshot /\ T.value = value
         /\ (r.id = pr => T.error = res.err /\ T.state = "errored")

\* A refresh was answered with status 404: the error holds the status and
\* the snapshot is the one from before.
C14_Witness ==
  /\ SettledFailed /\ last.applied
  /\ error = [kind |-> "API error", status |-> 404]
  /\ snapshot # null /\ snapshot = value /\ snapReq.id < last.req.id

\* C15: isFetching() is true exactly when no snapshot exists or a load is
\* pending; it is true after a failed first load with nothing in flight,
\* and false after a failed refresh.
C15_IsFetching ==
  /\ (isFetching <=> (snapshot = null \/ pr # 0))
  /\ (pr # 0 <=> state \in {"pending", "refreshing"})
  /\ (SettledFailed /\ last.applied /\ snapshot = null /\ inflight = {}
        => isFetching)
  /\ (SettledFailed /\ last.applied /\ snapshot # null => ~isFetching)

\* A refresh has failed, nothing is in flight, and isFetching() is false.
C15_Witness ==
  /\ SettledFailed /\ last.applied /\ snapshot # null
  /\ inflight = {} /\ state = "errored" /\ ~isFetching

\* Largest total within the bounds.
MaxTotal == TotalStep * MaxTotalSteps

\* C16: total() is the total of the snapshot, 0 without a snapshot;
\* totalPages() is the least number of pages of 8 that hold total() rows,
\* for every total; a total of 20 gives 3 pages, and the page at offset 16
\* has 4 rows.
C16_TotalPages ==
  /\ (snapshot = null => total = 0 /\ totalPages = 0)
  /\ (snapshot # null => total = snapshot.total)
  /\ totalPages * 8 >= total /\ (totalPages - 1) * 8 < total
  /\ \A t \in 0..MaxTotal :
       LET n == totalPagesOf([snapshot |-> [rows |-> <<>>, total |-> t]])
       IN n * 8 >= t /\ (n - 1) * 8 < t /\ (t = 20 => n = 3)
  /\ (snapshot # null /\ total = 20 /\ snapReq.skip = 16
        => totalPages = 3 /\ Len(displayRows) = 4)

\* The third page of a listing of 20 is displayed.
C16_Witness ==
  /\ snapshot # null /\ total = 20 /\ totalPages = 3
  /\ page = 2 /\ snapReq.page = 2 /\ snapReq.skip = 16
  /\ Len(displayRows) = 4

\* C17: where the table is rendered with at most 8 rows, data rows and
\* placeholder rows together are 8; the number of placeholders is never
\* negative, for any number of rows; the placeholders are no part of
\* displayRows() or the snapshot, which hold the result of the fetch as it
\* arrived.
C17_Padding ==
  /\ (TableShown /\ Len(displayRows) <= PAGE_SIZE
        => Len(displayRows) + PaddingRows = 8)
  /\ PaddingRows >= 0
  /\ \A n \in 0..(PAGE_SIZE + 2) :
       /\ PaddingRowsFor(n) >= 0
       /\ (n <= PAGE_SIZE => n + PaddingRowsFor(n) = 8)
  /\ (snapshot # null =>
        /\ snapshot = value /\ displayRows = value.rows
        /\ Len(displayRows) = Max(0, Min(PAGE_SIZE, total - snapReq.skip)))
  /\ (SettledOk /\ last.applied => displayRows = last.val.rows)

\* A short last page is rendered: 2 data rows and 6 placeholders.
C17_Witness ==
  /\ TableShown /\ Len(displayRows) = 2 /\ PaddingRows = 6
  /\ snapReq.page = 1 /\ total = 10

\* C18: every step that issues a fetch issues exactly one request, for the
\* current page p, with limit 8 and skip p * 8; every request in flight has
\* that form, and the rows of a result start at the record after its
\* page's offset.
C18_RequestPerPage ==
  /\ [](\A r \in inflight : r.limit = 8 /\ r.skip = r.page * 8)
  /\ [](snapshot # null /\ Len(displayRows) > 0
          => /\ displayRows[1].id = snapReq.page * 8 + 1
             /\ Len(displayRows) <= 8)
  /\ [][nextId' # nextId =>
          /\ Cardinality(inflight' \ inflight) = 1
          /\ \A r \in inflight' \ inflight :
               r.page = page' /\ r.limit = 8 /\ r.skip = page' * 8]_vars

\* The fetch for page 2 is in flight with skip 16.
C18_Witness ==
  /\ page = 2
  /\ \E r \in inflight : r.id = pr /\ r.page = 2 /\ r.skip = 16 /\ r.limit = 8

\* Role values: the three the endpoint uses and others.
Roles == {"admin", "moderator", "user", "", "Admin", "guest"}

\* C19: "admin" gives "Active", "moderator" gives "Pending", every other
\* role gives "Inactive"; every displayed row has the label of the role of
\* the record it was made from.
C19_TierLabel ==
  /\ \A role \in Roles :
       deriveStatus(role) = IF role = "admin" THEN "Active"
                            ELSE IF role = "moderator" THEN "Pending"
                            ELSE "Inactive"
  /\ \A k \in 1..Len(displayRows) :
       LET u == RemoteUser(displayRows[k].id)
       IN /\ (u.role = "admin" => displayRows[k].status = "Active")
          /\ (u.role = "moderator" => displayRows[k].status = "Pending")
          /\ (u.role \notin {"admin", "moderator"}
                => displayRows[k].status = "Inactive")

\* A snapshot has rows of all three labels.
C19_Witness ==
  /\ snapshot # null
  /\ \A l \in {"Active", "Pending", "Inactive"} :
       \E k \in 1..Len(displayRows) : displayRows[k].status = l

\* The record of the example: role "admin", identity 5, age 30.
ExampleUser ==
  [id |-> 5, firstName |-> <<"first", 5>>, lastName |-> <<"last", 5>>,
   email |-> <<"email", 5>>, age |-> 30, role |-> "admin",
   company |-> [title |-> <<"title", 5>>]]

\* C20 as stated: the row made from the record with role "admin", identity 5
\* and age 30 has the label "Active" and the metric "$9,000".
C20_Original ==
  \A k \in 1..Len(displayRows) :
    displayRows[k].id = 5 =>
      /\ displayRows[k].status = "Active"
      /\ displayRows[k].revenue = <<"$", "9", ",", "0", "0", "0">>

\* C20 amended: the projection of the record with role "admin", identity 5
\* and age 30 has the label "Active" and the metric "$13,000"
\* (5 * 1340 + 30 * 210 = 13000), and so has the row displayed for it.
C20_Projection ==
  /\ mapUser(ExampleUser).status = "Active"
  /\ mapUser(ExampleUser).revenue = <<"$", "1", "3", ",", "0", "0", "0">>
  /\ \A k \in 1..Len(displayRows) :
       displayRows[k].id = 5 =>
         /\ displayRows[k] = mapUser(ExampleUser)
         /\ displayRows[k].status = "Active"
         /\ displayRows[k].revenue = <<"$", "1", "3", ",", "0", "0", "0">>

\* The row of record 5 is displayed.
C20_Witness ==
  /\ snapshot # null /\ Len(displayRows) >= 5
  /\ displayRows[5].id = 5 /\ RemoteUser(5) = ExampleUser

\* Ages a record may carry: those of the listing, and zero.
Ages == {0} \cup {AgeOf(i) : i \in 0..MaxTotal}

\* The metric of a record with identity id and age age, as displayed.
MetricOf(id, age) == <<"$">> \o toLocaleString(id * 1340 + age * 210)

\* C21: the metric of a row is identity * 1340 + age * 210 of the row's own
\* record: for every identity and age the projection gives that amount, and
\* every displayed row, whatever the page, its position in the page and the
\* fetches before it, carries the amount of its own record.
C21_MetricOfOwnRecord ==
  /\ \A id \in 0..MaxTotal, age \in Ages :
       /\ deriveRevenueAmount(id, age) = id * 1340 + age * 210
       /\ mapUser([RemoteUser(id) EXCEPT !.age = age]).revenue = MetricOf(id, age)
  /\ \A k \in 1..Len(displayRows) :
       displayRows[k].revenue = MetricOf(displayRows[k].id, AgeOf(displayRows[k].id))

\* The first row of the second page, fetched after the first page, shows
\* the metric of record 9 aged 34: 9 * 1340 + 34 * 210 = 19200.
C21_Witness ==
  /\ page = 1 /\ snapReq.page = 1 /\ snapReq.id > 1
  /\ Len(displayRows) >= 1
  /\ displayRows[1].id = 9 /\ AgeOf(9) = 34
  /\ displayRows[1].revenue = <<"$", "1", "9", ",", "2", "0", "0">>

\* C22 as stated: when a snapshot exists, nothing is in flight and the fetch
\* that completed last succeeded, the snapshot is the result of the fetch
\* issued for the current page.
C22_Original ==
  (snapshot # null /\ inflight = {} /\ SettledOk) =>
    (snapReq # NoRequest /\ snapReq.page = page)

\* C22 amended: when a snapshot exists, nothing is in flight and the fetch
\* that completed last succeeded and was the latest one issued, the snapshot
\* is the result of that fetch, which was issued for the current page; the
\* page indicator and the displayed rows then refer to the same page.
C22_SnapshotOfCurrentPage ==
  (snapshot # null /\ inflight = {} /\ SettledOk /\ last.applied) =>
    /\ snapReq = last.req
    /\ snapshot = last.val
    /\ snapReq.page = page
    /\ snapReq.skip = page * PAGE_SIZE

\* The second page was requested and its fetch, the latest one, succeeded
\* with rows while nothing else was in flight.
C22_Witness ==
  /\ snapshot # null /\ inflight = {} /\ SettledOk /\ last.applied
  /\ page = 1 /\ Len(displayRows) >= 1 /\ displayRows[1].id = PAGE_SIZE + 1

\* Nothing is being fetched and the snapshot is the result of the request
\* issued last, which is the one for the current page.
AtRest ==
  /\ ~isFetching
  /\ inflight = {}
  /\ snapshot # null
  /\ snapReq.id = Issued
  /\ snapReq.page = page
  /\ snapshot = value

\* C23: in a run where every request is settled and none fails, the
\* component comes to rest again and again, hence after the last click on
\* Prev or Next: it reaches a state where isFetching() is false and the
\* snapshot is the result of the request issued last, which is the request
\* for the current page; no page change is lost.
C23_ComesToRest == ([]~SettledFailed) => []<>AtRest

\* Four page changes, the last one back from the fourth page, and the
\* component at rest on the third page.
C23_Witness ==
  /\ AtRest /\ clicks.page = 4 /\ page = 2 /\ snapReq.page = 2
  /\ Len(displayRows) >= 1 /\ displayRows[1].id = 2 * PAGE_SIZE + 1

\* A click on the control is possible: it is rendered and not disabled.
PrevUsable == PaginationShown /\ ~PrevDisabled
NextUsable == PaginationShown /\ ~NextDisabled

\* C24: when a snapshot exists and nothing is in flight, whether the last
\* fetch succeeded or failed, isFetching() is false and the Prev and Next
\* controls are usable again, subject only to the page bounds: Prev whenever
\* page > 0 and Next whenever page < totalPages() - 1.
C24_ControlsUsableAgain ==
  (snapshot # null /\ inflight = {}) =>
    /\ ~isFetching
    /\ (page > 0 => PrevUsable)
    /\ (page < totalPages - 1 => NextUsable)

\* C25: page starts at 0 and is never negative; a click on Prev happens only
\* when page > 0 and sets page - 1, a click on Next sets page + 1, and no
\* other step changes page: not a fetch completion, success or failure,
\* and not a retry.  A failed fetch leaves page at the requested page, not
\* at the page of the displayed snapshot.
C25_PageFrame ==
  /\ page = 0
  /\ [](page >= 0)
  /\ [][ /\ (last'.op = "prev" => page > 0 /\ page' = page - 1)
         /\ (last'.op = "next" => page' = page + 1)
         /\ (last'.op \in {"settle", "retry"} => page' = page)
         /\ (page' # page => last'.op \in {"prev", "next"})
         /\ last'.op \in {"prev", "next", "settle", "retry"} ]_vars

\* The fetch for the second page has failed: page is still 1 while the
\* snapshot displayed is the one of page 0.
C25_Witness ==
  /\ SettledFailed /\ last.applied /\ last.req.page = 1
  /\ page = 1 /\ snapshot # null /\ snapReq.page = 0 /\ clicks.page = 1

\* Retry is offered: the error block, which holds the button, is rendered.
RetryOffered == ErrorBlockShown

\* The refresh of the current page has failed: a snapshot exists, the
\* resource holds an error and no load is current.
FailedRefresh == snapshot # null /\ error # undefined /\ pr = 0

\* C26 as stated: Retry is offered exactly when the resource has an error
\* and no snapshot exists, and once any fetch has succeeded no later state
\* offers Retry.
C26_Original ==
  /\ [](RetryOffered <=> (error # undefined /\ snapshot = null))
  /\ [](SettledOk => []~RetryOffered)

\* C26 amended: Retry is offered exactly when the resource has an error and
\* no snapshot exists; once a successful fetch has been applied, so that a
\* snapshot exists, no later state offers Retry; after a failed refresh of
\* page p no step issues a request for page p, the only requests being those
\* of a change to another page.
C26_RetryOnlyWithoutSnapshot ==
  /\ [](RetryOffered <=> (error # undefined /\ snapshot = null))
  /\ []((nextId <= MaxRequests) => (ENABLED ClickRetry <=> RetryOffered))
  /\ []((SettledOk /\ last.applied) => snapshot # null)
  /\ [][snapshot # null => snapshot' # null /\ ~RetryOffered']_vars
  /\ [][FailedRefresh =>
          /\ last'.op \in {"prev", "next", "settle"}
          /\ \A r \in inflight' \ inflight : r.page # page /\ r.page = page'
          /\ (last'.op = "settle" => snapshot' = snapshot)]_vars

\* The refresh of the third page has failed and Retry is not offered.
C26_Witness ==
  /\ FailedRefresh /\ SettledFailed /\ last.applied /\ ~RetryOffered
  /\ page = 2 /\ last.req.page = 2 /\ snapReq.page = 1

\* Number of the three views that are rendered.
ViewsShown ==
  (IF ErrorBlockShown THEN 1 ELSE 0) + (IF SkeletonShown THEN 1 ELSE 0)
    + (IF TableShown THEN 1 ELSE 0)

\* C27: in every state exactly one of the error block (error, no snapshot),
\* the skeleton rows (no snapshot, no error) and the table (snapshot) is
\* rendered, and once the table is rendered it stays rendered: neither the
\* skeleton nor the error block is rendered again.
C27_OneView ==
  /\ [](ViewsShown = 1)
  /\ [](ErrorBlockShown <=> (error # undefined /\ snapshot = null))
  /\ [](SkeletonShown <=> (error = undefined /\ snapshot = null))
  /\ [](TableShown <=> snapshot # null)
  /\ [][TableShown => TableShown' /\ ~SkeletonShown' /\ ~ErrorBlockShown']_vars

\* The table is rendered while the resource holds the error of a failed
\* refresh of the first page, reached again after a visit to the second.
C27_Witness ==
  /\ TableShown /\ ~SkeletonShown /\ ~ErrorBlockShown
  /\ error # undefined /\ SettledFailed /\ last.applied
  /\ page = 0 /\ clicks.page = 2

\* The four switches of a store.
Switches(s) ==
  <<s.appearance.darkMode, s.appearance.compactView,
    s.notifications.email, s.notifications.push>>

\* C28: resetToDefaults sets darkMode, compactView and push to false and
\* email to true from any state and leaves profile.name and profile.role as
\* they are; a second reset changes nothing; each toggle flips its own
\* field and leaves every other field as it is.
C28_ResetAndToggles ==
  /\ [](resetToDefaults(resetToDefaults(settings)) = resetToDefaults(settings))
  /\ [](Switches(resetToDefaults(settings)) = <<FALSE, FALSE, TRUE, FALSE>>)
  /\ [][ /\ (last'.op = "resetToDefaults" =>
               /\ Switches(settings') = <<FALSE, FALSE, TRUE, FALSE>>
               /\ settings'.profile = settings.profile
               /\ (Switches(settings) = <<FALSE, FALSE, TRUE, FALSE>>
                     => settings' = settings))
         /\ (last'.op = "toggleDarkMode" =>
               /\ settings'.appearance.darkMode = ~settings.appearance.darkMode
               /\ settings' = [settings EXCEPT !.appearance.darkMode = ~@])
         /\ (last'.op = "toggleCompactView" =>
               /\ settings'.appearance.compactView = ~settings.appearance.compactView
               /\ settings' = [settings EXCEPT !.appearance.compactView = ~@])
         /\ (last'.op = "toggleEmailNotifications" =>
               /\ settings'.notifications.email = ~settings.notifications.email
               /\ settings' = [settings EXCEPT !.notifications.email = ~@])
         /\ (last'.op = "togglePushNotifications" =>
               /\ settings'.notifications.push = ~settings.notifications.push
               /\ settings' = [settings EXCEPT !.notifications.push = ~@])
         /\ (last'.op \in {"handleSave", "timeout"} => settings' = settings)
       ]_allVars

\* A reset has just put back all four switches while the display name that
\* was typed before is still there.
C28_Witness ==
  /\ last.op = "resetToDefaults"
  /\ Switches(settings) = <<FALSE, FALSE, TRUE, FALSE>>
  /\ settings.profile.name = "Guillermo" /\ settings.profile.role = "Admin"
  /\ settings # defaultSettings

\* C29: a Thrower that is told to throw has crashed and the boundary shows
\* the fallback; from the fallback a single click on Reset (reset(), then
\* setShouldThrow(false)) leaves the Thrower button shown, not the fallback,
\* with shouldThrow false.
C29_ResetRecovers ==
  /\ (shouldThrow => FallbackShown)
  /\ (FallbackShown =>
        /\ resetClick(Eb).errored = undefined
        /\ resetClick(Eb).shouldThrow = FALSE)

\* The log after an entry was put in front of it, cut to 8 entries.
Logged(entry, prev, next) ==
  /\ Len(next) = Min(8, Len(prev) + 1)
  /\ next[1] = entry
  /\ \A k \in 2..Len(next) : next[k] = prev[k - 1]

\* C30: the Timer is mounted exactly while one interval is set, its own;
\* each mount sets one new interval and logs "Timer mounted", each unmount
\* clears that interval and logs "Timer cleaned up"; a Tick is logged only
\* while the Timer is mounted, by the mounted Timer, with its count; the log
\* never holds more than 8 entries, the newest first.
C30_TimerLifecycle ==
  /\ [](Len(log) <= 8 /\ Len(log) = Min(8, appended))
  /\ [](IF visible THEN intervals = {MountedTimer} /\ MountedTimer >= 1
                   ELSE intervals = {})
  /\ [][ /\ (last'.op = "mount" =>
               /\ ~visible /\ visible'
               /\ Cardinality(intervals') = Cardinality(intervals) + 1
               /\ intervals \subseteq intervals'
               /\ ticksOf'[MountedTimer'] = 0
               /\ Logged(LogEntry("Timer mounted", 0), log, log'))
         /\ (last'.op = "unmount" =>
               /\ visible /\ ~visible'
               /\ intervals' = intervals \ {MountedTimer}
               /\ MountedTimer \in intervals
               /\ Logged(LogEntry("Timer cleaned up", 0), log, log'))
         /\ (last'.op = "tick" =>
               /\ visible /\ visible'
               /\ ticksOf'[MountedTimer] = ticksOf[MountedTimer] + 1
               /\ Logged(LogEntry("Tick", ticksOf'[MountedTimer]), log, log'))
         /\ (log' # log => last'.op \in {"mount", "unmount", "tick"})
         /\ (~visible /\ ~visible' => log' = log)
       ]_allVars

\* The Timer is mounted for the second time and has ticked; more than 8
\* entries were logged and the log holds the newest 8, the latest tick first
\* and the first Timer's "Timer mounted" gone.
C30_Witness ==
  /\ visible /\ MountedTimer = 2 /\ last.op = "tick"
  /\ appended > 8 /\ Len(log) = 8
  /\ log[1] = LogEntry("Tick", ticksOf[2])
  /\ \E k \in 1..8 : log[k] = LogEntry("Timer cleaned up", 0)
  /\ \A k \in 1..8 : log[k] # LogEntry("Tick", 0)

====
